---- MODULE Spec2Model ----
(***************************************************************************)
(* A model of ctxopt-core's PTY session manager                            *)
(* (packages/ctxopt-core/src/pty/manager.rs): one PtyManager value, the     *)
(* PTY pair and child process behind it, and the callers that share it.    *)
(***************************************************************************)
EXTENDS Integers, Sequences, FiniteSets, TLC

\* ------------------------------------------------------------------ bounds
\* PTY pairs the native PTY system hands out (calls of new()).
MaxPairs == 2
\* Bytes the child writes to its terminal.
MaxOut == 2
\* Bytes the input sink accepts over the session's life.
MaxSink == 3

\* Capacities a RingBuffer is made with (0 included).
MaxCap == 2
\* Bytes one push() is given at most.
MaxChunk == 3
\* Bytes pushed between two clear()s.
MaxHist == 4
\* Clock ticks per millisecond: Instant is finer than as_millis().
TicksPerMs == 2
\* How far the clock runs, in ticks.
MaxNow == 8
\* The largest interval_ms an injector is made with.
MaxInterval == 2

\* The read window of read() and read_async(): vec![0u8; 8192].
ReadWindow == 8192

\* Tasks sharing the session (it is Arc-shared; every method takes &self).
Callers == {"a", "b"}

\* Commands new() is called with: `true` exits 0, `false` exits 1, `cat`
\* runs until it is terminated.
Commands == {"true", "false", "cat"}

\* PtySize values: PtySize::default() and the size of test_pty_resize.
DefaultSize == [rows |-> 24, cols |-> 80]
Sizes == {DefaultSize, [rows |-> 40, cols |-> 120]}
NoSize == [rows |-> 0, cols |-> 0]

\* Buffers handed to write().
Payloads == {<<1>>, <<1, 2>>}

Resources == {"master", "writer", "reader", "child"}

Min(a, b) == IF a < b THEN a ELSE b

VARIABLES
    master,     \* PtyManager.master: the pair it is the master of (0: no session)
    writer,     \* PtyManager.writer: the pair its writer was taken from
    reader,     \* PtyManager.reader: the pair its reader was cloned from
    child,      \* PtyManager.child:  the pair its child was spawned in
    size,       \* PtyManager.size:   the cached PtySize
    guard,      \* the four tokio Mutexes: who holds each ("none": free)
    pc,         \* where each caller is inside a call that can block
    nextPair,   \* pairs allocated so far by openpty
    stray,      \* children spawned by a new() that then failed
    command,    \* the command the session's child runs
    applied,    \* the window size the PTY itself has (openpty / resize)
    proc,       \* the child process: "none", "running", "exited"
    exitStatus, \* its exit code once exited (-1 before)
    sigSent,    \* a kill() has signalled it
    status,     \* the child handle's cached exit status (-1: none yet)
    output,     \* bytes the child has written and nobody has read yet
    produced,   \* how many bytes the child has written in all
    wbuf,       \* bytes the writer has accepted and not flushed
    delivered,  \* bytes flushed through to the child's input
    last,       \* the most recent call that returned, and what it returned
    observed,   \* some is_running() returned false, or some wait() returned
    probed,     \* some is_running() has seen the child's exit status
    ring,       \* a RingBuffer, the bytes pushed since its last clear()
    inj,        \* a ContextInjector, the clock, and its caller's injections
    wr,         \* the writes in progress and what the writer took, in order
    rd          \* the chunks reads handed back, and an abandoned read_async()

vars == <<master, writer, reader, child, size, guard, pc, nextPair, stray,
          command, applied, proc, exitStatus, sigSent, status, output,
          produced, wbuf, delivered, last, observed, probed, ring, inj, wr, rd>>

session == <<master, writer, reader, child, size, command>>
process == <<proc, exitStatus, sigSent, status>>
stream  == <<output, produced>>
sink    == <<wbuf, delivered>>
locks   == <<guard, pc>>
seen    == <<observed, probed>>
trace   == <<wr, rd>>
others  == <<ring, inj, trace>>
pty     == <<session, locks, nextPair, stray, applied, process, stream, sink,
             last, seen>>

\* ----------------------------------------------------------- return values
NoRet ==
    [op |-> "none", phase |-> "none", res |-> "none", err |-> "none",
     data |-> <<>>, code |-> -1, flag |-> FALSE, sz |-> NoSize,
     alive |-> FALSE, after |-> FALSE, cause |-> <<>>, cmd |-> "none"]

Ok(op) == [NoRet EXCEPT !.op = op, !.res = "Ok"]

\* No write() has given the writer a byte.  `data` and `done` are the buffer
\* of each caller's write in progress and how much of it write_all has
\* passed on; `wire` is every byte the writer took, in order, with the call
\* (`id`, numbered from 1 as calls pass their first byte) and the place in
\* that call's buffer (`idx`) it came from.
NoWrites ==
    [data |-> [c \in Callers |-> <<>>], done |-> [c \in Callers |-> 0],
     id |-> [c \in Callers |-> 0], calls |-> 0, wire |-> <<>>]

\* No read has returned.  `got` is the chunks successful reads returned, one
\* after the other; `orphan` is the closure of a read_async() whose caller
\* stopped awaiting it ("none", "spawned", "locked").
NoReads == [got |-> <<>>, orphan |-> "none"]

\* No RingBuffer yet.  `pushed` is every byte pushed since the last clear().
NoRing ==
    [made |-> FALSE, capacity |-> 0, data |-> <<>>, pushed |-> <<>>,
     panicked |-> FALSE]

\* No ContextInjector yet.  `now` is the clock; `at`, `since` and `res` are
\* the latest can_inject(): when it was asked, the last_injection it saw
\* and its answer; `prev` and `latest` are when the caller's last two
\* injections were made.  -1: None / not yet.
NoInj ==
    [made |-> FALSE, interval_ms |-> 0, last_injection |-> -1, now |-> 0,
     pc |-> "idle", at |-> -1, since |-> -1, res |-> FALSE,
     prev |-> -1, latest |-> -1]

\* The text e.to_string() renders for a failure of the OS, word by word.
OsText == <<"os", "error">>

\* An Err(PtyError::<variant>(e.to_string())) raised when `phase` failed:
\* the variant and the text of the failure, the failure itself dropped.
Err(op, phase, variant) ==
    [NoRet EXCEPT !.op = op, !.phase = phase, !.res = "Err", !.err = variant,
                  !.cause = OsText]

\* #[error("..")] of each variant: the rendered message, word by word.
Display(variant, text) ==
    CASE variant = "CreateError" -> <<"Failed", "to", "create", "PTY">> \o text
      [] variant = "SpawnError" -> <<"Failed", "to", "spawn", "command">> \o text
      [] variant = "ReadError" -> <<"Failed", "to", "read", "from", "PTY">> \o text
      [] variant = "WriteError" -> <<"Failed", "to", "write", "to", "PTY">> \o text
      [] variant = "ProcessExited" -> <<"PTY", "process", "has", "exited">>
      [] variant = "IoError" -> <<"IO", "error">> \o text
      [] OTHER -> <<>>

\* std::error::Error::source() of a variant is present: only a #[from]
\* field is a source, a String field is not.
HasSource(variant) == variant = "IoError"

\* str::contains, on words.
Contains(msg, word) == \E i \in 1..Len(msg) : msg[i] = word

Live == master # 0

\* One lock for the whole session instead of one per resource.
OneGuard(op) == "master"

\* The Mutex each method locks: self.reader, self.writer, self.child or
\* self.master.
GuardOf(op) ==
    CASE op \in {"read", "read_async"} -> "reader"
      [] op \in {"write", "write_str"} -> "writer"
      [] op \in {"is_running", "wait", "kill"} -> "child"
      [] OTHER -> "master"

Init ==
    /\ master = 0 /\ writer = 0 /\ reader = 0 /\ child = 0
    /\ size = NoSize
    /\ guard = [r \in Resources |-> "none"]
    /\ pc = [c \in Callers |-> "idle"]
    /\ nextPair = 0
    /\ stray = 0
    /\ command = "none"
    /\ applied = NoSize
    /\ proc = "none"
    /\ exitStatus = -1
    /\ sigSent = FALSE
    /\ status = -1
    /\ output = <<>>
    /\ produced = 0
    /\ wbuf = <<>>
    /\ delivered = <<>>
    /\ last = NoRet
    /\ observed = FALSE
    /\ probed = FALSE
    /\ ring = NoRing
    /\ inj = NoInj
    /\ wr = NoWrites
    /\ rd = NoReads

\* ------------------------------------------------------------------- new()
\* The steps of new() that can fail, in order.
NewSteps == <<"openpty", "spawn_command", "take_writer", "try_clone_reader">>

StepIndex(step) == CHOOSE i \in 1..Len(NewSteps) : NewSteps[i] = step

\* The variant each failing step of new() is mapped to.
NewError(step) ==
    IF step = "spawn_command" THEN "SpawnError" ELSE "CreateError"

\* The texts the failure of a step of new() can carry: the OS's, and for a
\* program that cannot be found the library's own, which names it.
NewCauses(cmd, failAt) ==
    IF failAt = "spawn_command"
    THEN {OsText, <<"Unable", "to", "spawn", cmd>>}
    ELSE {OsText}

\* A new() that stops at take_writer still hands out a session.
PopulatesPastWriter(failAt) == failAt \in {"none", "take_writer"}

\* Ok(Self { .. }) is reached only past every `?`: the fields are populated
\* when no step failed.
Populates(failAt) == failAt = "none"

\* new(command, args, size), `failAt` being the first step the OS fails
\* ("none": every step succeeds).  On failure the `?` returns early and
\* every local (the pair, the child handle, the writer) is dropped; a child
\* already spawned is left to the hang-up of its closed terminal.
new(cmd, sz, failAt) ==
    /\ ~Live
    /\ nextPair < MaxPairs
    /\ \E text \in NewCauses(cmd, failAt) :
          last' = IF failAt = "none" THEN Ok("new")
                  ELSE [Err("new", failAt, NewError(failAt))
                           EXCEPT !.cause = text, !.cmd = cmd]
    /\ IF failAt = "openpty"
       THEN UNCHANGED <<session, nextPair, stray, applied, process>>
       ELSE LET id == nextPair + 1 IN
            /\ nextPair' = id
            /\ IF Populates(failAt)
               THEN /\ master' = id /\ writer' = id
                    /\ reader' = id /\ child' = id
                    /\ size' = sz
                    /\ command' = cmd
                    /\ applied' = [rows |-> sz.rows, cols |-> sz.cols]
                    /\ proc' = "running"
                    /\ UNCHANGED <<stray, exitStatus, sigSent, status>>
               ELSE /\ stray' = IF StepIndex(failAt) > StepIndex("spawn_command")
                                THEN stray + 1 ELSE stray
                    /\ UNCHANGED <<session, applied, process>>
    /\ UNCHANGED <<locks, stream, sink, seen>>
    /\ UNCHANGED others

\* ------------------------------------------------------ the child process
\* The exit code a command ends with on its own (-1: it does not end).
ExitCodeOf(cmd) ==
    CASE cmd = "true" -> 0
      [] cmd = "false" -> 1
      [] OTHER -> -1

\* The child writes one more byte to its terminal.
child_output ==
    /\ proc = "running"
    /\ produced < MaxOut
    /\ produced' = produced + 1
    /\ output' = Append(output, produced + 1)
    /\ UNCHANGED <<session, locks, nextPair, stray, applied, process, sink,
                   last, seen>>
    /\ UNCHANGED others

\* The child ends on its own.
child_exit ==
    /\ proc = "running"
    /\ ExitCodeOf(command) # -1
    /\ proc' = "exited"
    /\ exitStatus' = ExitCodeOf(command)
    /\ UNCHANGED <<session, locks, nextPair, stray, applied, sigSent, status,
                   stream, sink, last, seen>>
    /\ UNCHANGED others

\* The signal of a kill() ends the child; a signalled child has no exit code
\* of its own and the handle reports 1 for it.
child_killed ==
    /\ proc = "running"
    /\ sigSent
    /\ proc' = "exited"
    /\ exitStatus' = 1
    /\ UNCHANGED <<session, locks, nextPair, stray, applied, sigSent, status,
                   stream, sink, last, seen>>
    /\ UNCHANGED others

\* ---------------------------------------------------- the child handle
\* What child.try_wait() can answer: the cached status when there is one,
\* else what the OS says about the process: still running, ended with its
\* status, or ended with its status no longer to be had (the OS failure of
\* waiting for a process that is gone).
TryWaitOutcomes ==
    IF status # -1 THEN {[kind |-> "some", code |-> status]}
    ELSE IF proc = "exited"
         THEN {[kind |-> "some", code |-> exitStatus],
               [kind |-> "err", code |-> -1]}
         ELSE {[kind |-> "none", code |-> -1]}

\* A handle that remembers only that the child ended, not how.
StatusForgotten(tw) == IF tw.kind = "some" THEN 0 ELSE status

\* The handle keeps the status it has seen.
StatusAfter(tw) == IF tw.kind = "some" THEN tw.code ELSE status

\* An is_running() that takes every answer but an exit status for running.
IsRunningUnlessSome(tw) == tw.kind # "some"

\* An is_running() that takes every Ok answer for running.
IsRunningAnyOk(tw) == tw.kind # "err"

\* matches!(child.try_wait(), Ok(None))
IsRunningResult(tw) == tw.kind = "none"

\* is_running(): lock the child, probe it, unlock.
is_running(c, tw) ==
    /\ Live
    /\ pc[c] = "idle"
    /\ guard[GuardOf("is_running")] = "none"
    /\ tw \in TryWaitOutcomes
    /\ status' = StatusAfter(tw)
    /\ last' = [Ok("is_running") EXCEPT !.phase = tw.kind,
                                        !.flag = IsRunningResult(tw),
                                        !.alive = (proc = "running"),
                                        !.after = observed]
    /\ observed' = (observed \/ ~IsRunningResult(tw))
    /\ probed' = (probed \/ tw.kind = "some")
    /\ UNCHANGED <<session, locks, nextPair, stray, applied, proc, exitStatus,
                   sigSent, stream, sink>>
    /\ UNCHANGED others

\* wait() up to its lock: the guard is held for the whole blocking wait.
wait_lock(c) ==
    /\ Live
    /\ pc[c] = "idle"
    /\ guard[GuardOf("wait")] = "none"
    /\ guard' = [guard EXCEPT ![GuardOf("wait")] = c]
    /\ pc' = [pc EXCEPT ![c] = "wait"]
    /\ UNCHANGED <<session, nextPair, stray, applied, process, stream, sink,
                   last, seen>>
    /\ UNCHANGED others

\* What child.wait() can answer now (empty: it is still blocked).
WaitOutcomes ==
    IF status # -1 THEN {[kind |-> "some", code |-> status]}
    ELSE IF proc = "exited"
         THEN {[kind |-> "some", code |-> exitStatus],
               [kind |-> "err", code |-> -1]}
         ELSE {}

\* The variants wait(), kill() and resize() map their failure to.
WaitFailure == "SpawnError"
KillFailure == "SpawnError"
ResizeFailure == "CreateError"

\* What wait() returns for an answer of child.wait().
WaitResult(w) ==
    IF w.kind = "some"
    THEN [Ok("wait") EXCEPT !.code = w.code, !.phase = w.kind]
    ELSE Err("wait", "wait", WaitFailure)

\* wait() from child.wait()'s return on: map the result, drop the guard.
wait_return(c, w) ==
    /\ pc[c] = "wait"
    /\ w \in WaitOutcomes
    /\ status' = StatusAfter(w)
    /\ last' = [WaitResult(w) EXCEPT !.alive = (proc = "running"),
                                     !.after = observed]
    /\ observed' = TRUE
    /\ UNCHANGED probed
    /\ guard' = [guard EXCEPT ![GuardOf("wait")] = "none"]
    /\ pc' = [pc EXCEPT ![c] = "idle"]
    /\ UNCHANGED <<session, nextPair, stray, applied, proc, exitStatus,
                   sigSent, stream, sink>>
    /\ UNCHANGED others

\* A kill() whose request never reaches the child.
SignalDropped(ok) == sigSent

\* Whether a termination signal is on its way to the child after
\* child.kill(), `ok` being whether the OS accepted the request.
Signalled(ok) == sigSent \/ (ok /\ proc = "running")

\* kill() called while the child guard is held: the call is suspended in
\* self.child.lock().await.
kill_pending(c) ==
    /\ Live
    /\ pc[c] = "idle"
    /\ guard[GuardOf("kill")] # "none"
    /\ pc' = [pc EXCEPT ![c] = "kill"]
    /\ UNCHANGED <<session, guard, nextPair, stray, applied, process, stream,
                   sink, last, seen>>
    /\ UNCHANGED others

\* kill(): lock the child, signal it, unlock, for a caller that calls it
\* now or has been suspended at the lock.  `ok` is whether the OS accepted
\* the request.
kill(c, ok) ==
    /\ Live
    /\ pc[c] \in {"idle", "kill"}
    /\ guard[GuardOf("kill")] = "none"
    /\ sigSent' = Signalled(ok)
    /\ last' = [(IF ok THEN Ok("kill") ELSE Err("kill", "kill", KillFailure))
                    EXCEPT !.alive = (proc = "running")]
    /\ pc' = [pc EXCEPT ![c] = "idle"]
    /\ UNCHANGED <<session, guard, nextPair, stray, applied, proc, exitStatus,
                   status, stream, sink, seen>>
    /\ UNCHANGED others

\* ------------------------------------------------------ resize and size
\* From<PtySize> for PortablePtySize: the window size handed to the PTY.
PortablePtySize(sz) ==
    [rows |-> sz.rows, cols |-> sz.cols, pixel_width |-> 0, pixel_height |-> 0]

\* A resize() that stores the requested size before asking the PTY.
SizeAssignedFirst(new_size, ok) == new_size

\* The cached size after resize(new_size), `ok` being whether the PTY
\* accepted it: resize() assigns nothing to self.size.
SizeAfterResize(new_size, ok) == size

\* resize(new_size): lock the master, resize it, unlock.  `ok` is whether
\* the PTY accepted the new window size.
resize(c, new_size, ok) ==
    /\ Live
    /\ pc[c] = "idle"
    /\ guard[GuardOf("resize")] = "none"
    /\ IF ok
       THEN /\ applied' = [rows |-> PortablePtySize(new_size).rows,
                           cols |-> PortablePtySize(new_size).cols]
            /\ last' = [Ok("resize") EXCEPT !.sz = new_size]
       ELSE /\ last' = [Err("resize", "resize", ResizeFailure)
                          EXCEPT !.sz = new_size]
            /\ UNCHANGED applied
    /\ size' = SizeAfterResize(new_size, ok)
    /\ UNCHANGED <<master, writer, reader, child, command, locks, nextPair,
                   stray, process, stream, sink, seen>>
    /\ UNCHANGED others

\* size(): the cached field, no lock.
size_get(c) ==
    /\ Live
    /\ pc[c] = "idle"
    /\ last' = [Ok("size") EXCEPT !.sz = size]
    /\ UNCHANGED <<session, locks, nextPair, stray, applied, process, stream,
                   sink, seen>>
    /\ UNCHANGED others

\* ------------------------------------------------------------------ write
\* The writer pushes what it holds through to the child's input.
Flushed(buf) == [wbuf |-> <<>>, delivered |-> delivered \o buf]

\* A write() that ignores what flush answered.
WriteResultFlushIgnored(data, k, flushOk) ==
    IF k < Len(data) THEN Err("write", "write", "WriteError") ELSE Ok("write")

\* write(data).  write_all accepts the first `k` bytes (all of them, or it
\* fails after fewer); then, if all were accepted, flush succeeds or fails.
WriteResult(data, k, flushOk) ==
    IF k < Len(data) THEN Err("write", "write", "WriteError")
    ELSE IF ~flushOk THEN Err("write", "flush", "WriteError")
    ELSE Ok("write")

SinkAfterWrite(data, k, flushOk) ==
    IF k = Len(data) /\ flushOk
    THEN Flushed(wbuf \o data)
    ELSE [wbuf |-> wbuf \o SubSeq(data, 1, k), delivered |-> delivered]

\* A write() that goes ahead without the writer guard.
WriterNeverHeld(c) == TRUE

\* self.writer.lock().await lets caller c through: nobody holds the guard.
WriterAvailable(c) == guard[GuardOf("write")] = "none"

\* write() up to its lock; the guard is held until flush has answered.
write_lock(c) ==
    /\ Live
    /\ pc[c] = "idle"
    /\ WriterAvailable(c)
    /\ Len(wbuf) + Len(delivered) < MaxSink
    /\ guard' = [guard EXCEPT ![GuardOf("write")] = c]
    /\ pc' = [pc EXCEPT ![c] = "write"]
    /\ UNCHANGED <<session, nextPair, stray, applied, process, stream, sink,
                   last, seen>>
    /\ UNCHANGED others

\* write(data) from write_all on: deliver, flush, drop the guard.
write_return(c, data, k, flushOk) ==
    /\ pc[c] = "write"
    /\ k \in 0..Len(data)
    /\ Len(wbuf) + Len(delivered) + Len(data) <= MaxSink
    /\ wbuf' = SinkAfterWrite(data, k, flushOk).wbuf
    /\ delivered' = SinkAfterWrite(data, k, flushOk).delivered
    /\ last' = [WriteResult(data, k, flushOk) EXCEPT !.data = data,
                                                     !.alive = (proc = "running")]
    /\ guard' = [guard EXCEPT ![GuardOf("write")] = "none"]
    /\ pc' = [pc EXCEPT ![c] = "idle"]
    /\ UNCHANGED <<session, nextPair, stray, applied, process, stream, seen>>
    /\ UNCHANGED others

\* write_all(data) in progress: the writer takes the next byte of the
\* buffer of caller c's call.
write_all_step(c, data) ==
    /\ pc[c] = "write"
    /\ wr.done[c] = 0 \/ wr.data[c] = data
    /\ wr.done[c] < Len(data)
    /\ Len(wbuf) + Len(delivered) < MaxSink
    /\ wbuf' = Append(wbuf, data[wr.done[c] + 1])
    /\ LET first == wr.done[c] = 0
           call == IF first THEN wr.calls + 1 ELSE wr.id[c]
       IN wr' = [wr EXCEPT
                   !.data[c] = data,
                   !.done[c] = wr.done[c] + 1,
                   !.id[c] = call,
                   !.calls = IF first THEN wr.calls + 1 ELSE wr.calls,
                   !.wire = Append(wr.wire,
                                   [who |-> c, id |-> call,
                                    idx |-> wr.done[c] + 1,
                                    byte |-> data[wr.done[c] + 1]])]
    /\ UNCHANGED <<session, locks, nextPair, stray, applied, process, stream,
                   delivered, last, seen, ring, inj, rd>>

\* The end of a write(data) whose write_all went byte by byte: write_all
\* has failed after the bytes passed on so far, or it has passed them all
\* and flush answers; the guard is dropped.
write_all_return(c, data, flushOk) ==
    /\ pc[c] = "write"
    /\ wr.done[c] = 0 \/ wr.data[c] = data
    /\ wbuf' = IF wr.done[c] = Len(data) /\ flushOk
               THEN Flushed(wbuf).wbuf ELSE wbuf
    /\ delivered' = IF wr.done[c] = Len(data) /\ flushOk
                    THEN Flushed(wbuf).delivered ELSE delivered
    /\ last' = [WriteResult(data, wr.done[c], flushOk)
                  EXCEPT !.data = data, !.alive = (proc = "running")]
    /\ guard' = [guard EXCEPT ![GuardOf("write")] = "none"]
    /\ pc' = [pc EXCEPT ![c] = "idle"]
    /\ wr' = [wr EXCEPT !.data[c] = <<>>, !.done[c] = 0]
    /\ UNCHANGED <<session, nextPair, stray, applied, process, stream, seen,
                   ring, inj, rd>>

\* write_str(data) is write(data.as_bytes()).
write_str_lock(c) == write_lock(c)

write_str_return(c, text, k, flushOk) == write_return(c, text, k, flushOk)

\* The writer passes on bytes it was holding without being asked to.
sink_drain ==
    /\ wbuf # <<>>
    /\ wbuf' = Flushed(wbuf).wbuf
    /\ delivered' = Flushed(wbuf).delivered
    /\ UNCHANGED <<session, locks, nextPair, stray, applied, process, stream,
                   last, seen>>
    /\ UNCHANGED others

\* ------------------------------------------------------------------- read
\* What one reader.read(&mut buffer) can answer now: some of the pending
\* bytes (at most the window), end of stream once the child is gone and its
\* output drained, would-block when nothing is pending, or an OS failure.
ReaderOutcomes ==
    {[kind |-> "error", n |-> 0]} \cup
    (IF output # <<>>
     THEN {[kind |-> "data", n |-> n] : n \in 1..Min(Len(output), ReadWindow)}
     ELSE {[kind |-> "would_block", n |-> 0]} \cup
          (IF proc = "exited" THEN {[kind |-> "eof", n |-> 0]} ELSE {}))

\* read() without its would-block arm.
ReadResultNoWouldBlock(o) ==
    CASE o.kind = "eof" -> [Ok("read") EXCEPT !.phase = o.kind]
      [] o.kind = "data" ->
            [Ok("read") EXCEPT !.phase = o.kind, !.data = SubSeq(output, 1, o.n)]
      [] OTHER -> Err("read", o.kind, "ReadError")

\* The match of read() on the reader's answer.
ReadResult(o) ==
    CASE o.kind = "eof" -> [Ok("read") EXCEPT !.phase = o.kind]
      [] o.kind = "data" ->
            [Ok("read") EXCEPT !.phase = o.kind, !.data = SubSeq(output, 1, o.n)]
      [] o.kind = "would_block" -> [Ok("read") EXCEPT !.phase = o.kind]
      [] OTHER -> Err("read", o.kind, "ReadError")

\* The match of read_async()'s blocking closure on the reader's answer.
ReadAsyncResult(o) ==
    CASE o.kind = "eof" -> [Ok("read_async") EXCEPT !.phase = o.kind]
      [] o.kind = "data" ->
            [Ok("read_async") EXCEPT !.phase = o.kind,
                                     !.data = SubSeq(output, 1, o.n)]
      [] OTHER -> Err("read_async", o.kind, "ReadError")

\* The bytes still pending after the reader answered `o`.
OutputAfter(o) ==
    IF o.kind = "data" THEN SubSeq(output, o.n + 1, Len(output)) ELSE output

\* read() up to its lock; the guard is held while reader.read blocks.
read_lock(c) ==
    /\ Live
    /\ pc[c] = "idle"
    /\ guard[GuardOf("read")] = "none"
    /\ guard' = [guard EXCEPT ![GuardOf("read")] = c]
    /\ pc' = [pc EXCEPT ![c] = "read"]
    /\ UNCHANGED <<session, nextPair, stray, applied, process, stream, sink,
                   last, seen>>
    /\ UNCHANGED others

\* read() from the reader's answer on.
read_return(c, o) ==
    /\ pc[c] = "read"
    /\ o \in ReaderOutcomes
    /\ output' = OutputAfter(o)
    /\ last' = [ReadResult(o) EXCEPT !.alive = (proc = "running")]
    /\ rd' = [rd EXCEPT !.got = rd.got \o ReadResult(o).data]
    /\ guard' = [guard EXCEPT ![GuardOf("read")] = "none"]
    /\ pc' = [pc EXCEPT ![c] = "idle"]
    /\ UNCHANGED <<session, nextPair, stray, applied, process, produced, sink,
                   seen>>
    /\ UNCHANGED <<ring, inj, wr>>

\* read_async(): the closure is handed to spawn_blocking.
read_async_spawn(c) ==
    /\ Live
    /\ pc[c] = "idle"
    /\ pc' = [pc EXCEPT ![c] = "spawned"]
    /\ UNCHANGED <<session, guard, nextPair, stray, applied, process, stream,
                   sink, last, seen>>
    /\ UNCHANGED others

\* The closure takes the reader with blocking_lock on its own thread.
read_async_lock(c) ==
    /\ pc[c] = "spawned"
    /\ guard[GuardOf("read_async")] = "none"
    /\ guard' = [guard EXCEPT ![GuardOf("read_async")] = c]
    /\ pc' = [pc EXCEPT ![c] = "read_async"]
    /\ UNCHANGED <<session, nextPair, stray, applied, process, stream, sink,
                   last, seen>>
    /\ UNCHANGED others

\* The closure's result comes back through the JoinHandle.
read_async_return(c, o) ==
    /\ pc[c] = "read_async"
    /\ o \in ReaderOutcomes
    /\ output' = OutputAfter(o)
    /\ last' = [ReadAsyncResult(o) EXCEPT !.alive = (proc = "running")]
    /\ rd' = [rd EXCEPT !.got = rd.got \o ReadAsyncResult(o).data]
    /\ guard' = [guard EXCEPT ![GuardOf("read_async")] = "none"]
    /\ pc' = [pc EXCEPT ![c] = "idle"]
    /\ UNCHANGED <<session, nextPair, stray, applied, process, produced, sink,
                   seen>>
    /\ UNCHANGED <<ring, inj, wr>>

\* The caller stops awaiting its read_async() (the future is dropped, as
\* when a timer it was raced against fires): the JoinHandle is dropped,
\* which detaches the blocking task; the closure goes on by itself.
read_async_drop(c) ==
    /\ pc[c] \in {"spawned", "read_async"}
    /\ rd.orphan = "none"
    /\ rd' = [rd EXCEPT !.orphan = IF pc[c] = "spawned" THEN "spawned"
                                   ELSE "locked"]
    /\ guard' = IF pc[c] = "read_async"
                THEN [guard EXCEPT ![GuardOf("read_async")] = "orphan"]
                ELSE guard
    /\ pc' = [pc EXCEPT ![c] = "idle"]
    /\ UNCHANGED <<session, nextPair, stray, applied, process, stream, sink,
                   last, seen, ring, inj, wr>>

\* The detached closure takes the reader with blocking_lock.
orphan_lock ==
    /\ rd.orphan = "spawned"
    /\ guard[GuardOf("read_async")] = "none"
    /\ guard' = [guard EXCEPT ![GuardOf("read_async")] = "orphan"]
    /\ rd' = [rd EXCEPT !.orphan = "locked"]
    /\ UNCHANGED <<session, pc, nextPair, stray, applied, process, stream,
                   sink, last, seen, ring, inj, wr>>

\* The detached closure's read answers: what it read goes to a JoinHandle
\* nobody holds, and the guard is dropped.
orphan_read(o) ==
    /\ rd.orphan = "locked"
    /\ o \in ReaderOutcomes
    /\ output' = OutputAfter(o)
    /\ guard' = [guard EXCEPT ![GuardOf("read_async")] = "none"]
    /\ rd' = [rd EXCEPT !.orphan = "none"]
    /\ UNCHANGED <<session, pc, nextPair, stray, applied, process, produced,
                   sink, last, seen, ring, inj, wr>>

\* The blocking task is cancelled before it ran: the JoinError becomes
\* a ReadError.
read_async_join_error(c) ==
    /\ pc[c] = "spawned"
    /\ last' = [Err("read_async", "join", "ReadError")
                  EXCEPT !.alive = (proc = "running")]
    /\ pc' = [pc EXCEPT ![c] = "idle"]
    /\ UNCHANGED <<session, guard, nextPair, stray, applied, process, stream,
                   sink, seen>>
    /\ UNCHANGED others

\* ------------------------------------------------------- specifications
NewInputs == {"none"} \cup {NewSteps[i] : i \in 1..Len(NewSteps)}

Construct ==
    \E cmd \in Commands, sz \in Sizes, failAt \in NewInputs :
        new(cmd, sz, failAt)

ChildCalls(c) ==
    \/ \E tw \in TryWaitOutcomes : is_running(c, tw)
    \/ wait_lock(c)
    \/ \E w \in WaitOutcomes : wait_return(c, w)
    \/ \E ok \in BOOLEAN : kill(c, ok)

MasterCalls(c) ==
    \/ \E sz \in Sizes, ok \in BOOLEAN : resize(c, sz, ok)
    \/ size_get(c)

WriterCalls(c) ==
    \/ write_str_lock(c)
    \/ \E data \in Payloads, k \in 0..MaxSink, flushOk \in BOOLEAN :
          write_str_return(c, data, k, flushOk)

ReaderCalls(c) ==
    \/ read_lock(c)
    \/ \E o \in ReaderOutcomes : read_return(c, o)
    \/ read_async_spawn(c)
    \/ read_async_lock(c)
    \/ \E o \in ReaderOutcomes : read_async_return(c, o)
    \/ read_async_join_error(c)

Next ==
    \/ Construct
    \/ child_output
    \/ child_exit
    \/ child_killed
    \/ sink_drain
    \/ \E c \in Callers :
          ChildCalls(c) \/ MasterCalls(c) \/ WriterCalls(c) \/ ReaderCalls(c)

\* The whole session: every operation, every caller.
Spec == Init /\ [][Next]_vars

\* The session's control side: construction, the window size, the child.
NextControl ==
    \/ Construct
    \/ child_exit
    \/ child_killed
    \/ \E c \in Callers : ChildCalls(c) \/ MasterCalls(c)

SpecControl == Init /\ [][NextControl]_vars

\* The session's output side, and the ways its child ends.
NextRead ==
    \/ Construct
    \/ child_output
    \/ child_exit
    \/ child_killed
    \/ \E c \in Callers : ReaderCalls(c) \/ \E ok \in BOOLEAN : kill(c, ok)

SpecRead == Init /\ [][NextRead]_vars

\* The session's input side, and the ways its child ends.
NextWrite ==
    \/ Construct
    \/ sink_drain
    \/ child_exit
    \/ child_killed
    \/ \E c \in Callers : WriterCalls(c) \/ \E ok \in BOOLEAN : kill(c, ok)

SpecWrite == Init /\ [][NextWrite]_vars

\* Every operation, called by one task.
NextSolo ==
    \/ \E failAt \in NewInputs : new("false", DefaultSize, failAt)
    \/ child_output
    \/ child_exit
    \/ child_killed
    \/ sink_drain
    \/ \E c \in {"a"} :
          ChildCalls(c) \/ MasterCalls(c) \/ WriterCalls(c) \/ ReaderCalls(c)

SpecSolo == Init /\ [][NextSolo]_vars

\* Every kind of call, made by tasks that share the session, each on a
\* thread of its own.
SharedCalls(c) ==
    \/ \E tw \in TryWaitOutcomes : is_running(c, tw)
    \/ wait_lock(c)
    \/ \E w \in WaitOutcomes : wait_return(c, w)
    \/ kill(c, TRUE)
    \/ resize(c, DefaultSize, TRUE)
    \/ write_lock(c)
    \/ \E flushOk \in BOOLEAN : write_return(c, <<1>>, 1, flushOk)
    \/ ReaderCalls(c)

NextShared ==
    \/ \E cmd \in {"false", "cat"} : new(cmd, DefaultSize, "none")
    \/ child_output
    \/ child_exit
    \/ child_killed
    \/ \E c \in Callers : SharedCalls(c)

SpecShared == Init /\ [][NextShared]_vars

\* A read_async() that reads in place instead of on the blocking pool.
StallsAlsoAsync(p) == p \in {"read", "wait", "write", "read_async"}

\* Where a caller sits inside a blocking call made by the async fn itself
\* (reader.read, child.wait, writer.write_all / flush): as a task it keeps
\* the scheduler's thread until the call returns.  read_async() awaits the
\* JoinHandle of spawn_blocking instead.
Stalls(p) == p \in {"read", "wait", "write"}

\* Caller c, a task of a one-thread cooperative scheduler, can be run: no
\* other task is keeping the thread.
Scheduled(c) == \A d \in Callers \ {c} : ~Stalls(pc[d])

\* The callers as tasks of one cooperative scheduler thread; the closure of
\* read_async() runs on the blocking pool whatever the scheduler does.
NextTasks ==
    \/ \E cmd \in {"false", "cat"} : new(cmd, DefaultSize, "none")
    \/ child_output
    \/ child_exit
    \/ child_killed
    \/ \E c \in Callers :
          \/ Scheduled(c) /\ SharedCalls(c)
          \/ read_async_lock(c)

SpecTasks == Init /\ [][NextTasks]_vars

\* One session from construction to its end: the child handle's calls, with
\* the OS delivering a signal it accepted and a blocked child.wait()
\* returning once the child has ended.
NextKill ==
    \/ ~Live /\ Construct
    \/ child_exit
    \/ child_killed
    \/ \E c \in Callers : ChildCalls(c)

SpecKill ==
    /\ Init /\ [][NextKill]_vars
    /\ WF_vars(child_killed)
    /\ \A c \in Callers : WF_vars(\E w \in WaitOutcomes : wait_return(c, w))

\* The same, with kill() also called while the child guard is held; a
\* suspended kill() takes the guard once it is free (tokio's Mutex is fair).
NextKillWait ==
    \/ ~Live /\ Construct
    \/ child_exit
    \/ child_killed
    \/ \E c \in Callers : ChildCalls(c) \/ kill_pending(c)

SpecKillWait ==
    /\ Init /\ [][NextKillWait]_vars
    /\ WF_vars(child_killed)
    /\ \A c \in Callers :
          /\ WF_vars(\E w \in WaitOutcomes : wait_return(c, w))
          /\ WF_vars(pc[c] = "kill" /\ \E ok \in BOOLEAN : kill(c, ok))

\* Callers writing to one session, write_all seen byte by byte.
NextWriters ==
    \/ new("cat", DefaultSize, "none")
    \/ sink_drain
    \/ \E c \in Callers :
          \/ write_lock(c)
          \/ \E data \in Payloads : write_all_step(c, data)
          \/ \E data \in Payloads, flushOk \in BOOLEAN :
                write_all_return(c, data, flushOk)

SpecWriters == Init /\ [][NextWriters]_vars

\* Callers reading one session's output, some giving up on a read_async().
NextReaders ==
    \/ \E cmd \in {"false", "cat"} : new(cmd, DefaultSize, "none")
    \/ child_output
    \/ child_exit
    \/ \E c \in Callers : ReaderCalls(c) \/ read_async_drop(c)
    \/ orphan_lock
    \/ \E o \in ReaderOutcomes : orphan_read(o)

SpecReaders == Init /\ [][NextReaders]_vars

\* ------------------------------------------------------------ RingBuffer
RingBytes == {0, 1, 255}

RECURSIVE SeqsUpTo(_, _)
\* The byte slices of at most n bytes.
SeqsUpTo(S, n) ==
    IF n = 0 THEN {<<>>}
    ELSE LET shorter == SeqsUpTo(S, n - 1) IN
         shorter \cup {Append(q, b) : q \in shorter, b \in S}

RECURSIVE push(_, _, _)
\* RingBuffer::push, byte by byte: when the Vec is at capacity its first
\* byte is removed (Vec::remove(0) panics on an empty Vec), then the byte
\* is appended.
push(data, capacity, bytes) ==
    IF bytes = <<>> THEN [data |-> data, panicked |-> FALSE]
    ELSE IF Len(data) >= capacity /\ data = <<>>
    THEN [data |-> data, panicked |-> TRUE]
    ELSE LET kept == IF Len(data) >= capacity THEN Tail(data) ELSE data IN
         push(Append(kept, Head(bytes)), capacity, Tail(bytes))

\* RingBuffer::as_slice.
as_slice == ring.data

\* RingBuffer::new(capacity).
ring_new(capacity) ==
    /\ ~ring.made
    /\ ring' = [NoRing EXCEPT !.made = TRUE, !.capacity = capacity]
    /\ UNCHANGED <<pty, inj, trace>>

\* buffer.push(bytes).
ring_push(bytes) ==
    /\ ring.made /\ ~ring.panicked
    /\ Len(ring.pushed) + Len(bytes) <= MaxHist
    /\ ring' = [ring EXCEPT
                  !.data = push(ring.data, ring.capacity, bytes).data,
                  !.panicked = push(ring.data, ring.capacity, bytes).panicked,
                  !.pushed = ring.pushed \o bytes]
    /\ UNCHANGED <<pty, inj, trace>>

\* buffer.clear().
ring_clear ==
    /\ ring.made /\ ~ring.panicked
    /\ ring' = [ring EXCEPT !.data = <<>>, !.pushed = <<>>]
    /\ UNCHANGED <<pty, inj, trace>>

NextRing ==
    \/ \E capacity \in 0..MaxCap : ring_new(capacity)
    \/ \E bytes \in SeqsUpTo(RingBytes, MaxChunk) : ring_push(bytes)
    \/ ring_clear

SpecRing == Init /\ [][NextRing]_vars

\* ------------------------------------------------------- ContextInjector
\* Duration::as_millis of a span of the clock: whole milliseconds.
as_millis(ticks) == ticks \div TicksPerMs

\* An injector that wants more than the interval to have passed.
ElapsedEnoughStrict(elapsed_ms, interval_ms) == elapsed_ms > interval_ms

\* last.elapsed().as_millis() >= self.interval_ms as u128
ElapsedEnough(elapsed_ms, interval_ms) == elapsed_ms >= interval_ms

\* ContextInjector::can_inject.
CanInject ==
    IF inj.last_injection = -1 THEN TRUE
    ELSE ElapsedEnough(as_millis(inj.now - inj.last_injection), inj.interval_ms)

\* ContextInjector::new(interval_ms).
inj_new(interval_ms) ==
    /\ ~inj.made
    /\ inj' = [NoInj EXCEPT !.made = TRUE, !.interval_ms = interval_ms]
    /\ UNCHANGED <<pty, ring, trace>>

\* The clock advances.
tick ==
    /\ inj.made
    /\ inj.now < MaxNow
    /\ inj' = [inj EXCEPT !.now = inj.now + 1]
    /\ UNCHANGED <<pty, ring, trace>>

\* The caller asks can_inject() and goes on to inject when it is true.
can_inject ==
    /\ inj.made /\ inj.pc = "idle"
    /\ inj' = [inj EXCEPT !.at = inj.now, !.since = inj.last_injection,
                          !.res = CanInject,
                          !.pc = IF CanInject THEN "permitted" ELSE "idle"]
    /\ UNCHANGED <<pty, ring, trace>>

\* The caller performs the injection it was permitted.
inject ==
    /\ inj.pc = "permitted"
    /\ inj' = [inj EXCEPT !.prev = inj.latest, !.latest = inj.now,
                          !.pc = "injected"]
    /\ UNCHANGED <<pty, ring, trace>>

\* ContextInjector::mark_injected: last_injection = Some(Instant::now()).
mark_injected ==
    /\ inj.made /\ inj.pc \in {"idle", "injected"}
    /\ inj' = [inj EXCEPT !.last_injection = inj.now, !.pc = "idle"]
    /\ UNCHANGED <<pty, ring, trace>>

NextInjector ==
    \/ \E interval_ms \in 0..MaxInterval : inj_new(interval_ms)
    \/ tick
    \/ can_inject
    \/ inject
    \/ mark_injected

SpecInjector == Init /\ [][NextInjector]_vars

\* ----------------------------------------------------------------- claims
ReadOps == {"read", "read_async"}

\* C1: size() returns the last successfully applied PtySize: the size given
\* to new() until a resize succeeds, and the size of the last successful
\* resize after that, for every caller.
C1_SizeIsLastApplied ==
    /\ Live => size = applied
    /\ last.op = "size" => last.sz = applied

\* C2: for every answer of the underlying reader (bytes, end of stream,
\* would-block, any other failure) read_async() returns what read() returns
\* for that answer.
C2_ReadAsyncMatchesRead ==
    (last.op = "read_async" /\ last.phase # "join") =>
        LET r == ReadResult([kind |-> last.phase, n |-> 0]) IN
        /\ last.res = r.res
        /\ last.err = r.err
        /\ (last.data = <<>>) = (last.phase # "data")

\* C3: read() returns Ok with no bytes for end of stream and for would-block,
\* Ok with the bytes read for a read of n > 0 bytes, ReadError for every
\* other failure of the reader, and nothing else.
C3_ReadNormalizes ==
    last.op = "read" =>
        /\ last.phase \in {"eof", "would_block", "data", "error"}
        /\ last.phase \in {"eof", "would_block"} =>
              (last.res = "Ok" /\ last.data = <<>>)
        /\ last.phase = "data" => (last.res = "Ok" /\ last.data # <<>>)
        /\ last.phase = "error" => (last.res = "Err" /\ last.err = "ReadError")

\* A read() that met would-block has returned Ok with no bytes.
C3_Witness ==
    last.op = "read" /\ last.phase = "would_block" /\ last.res = "Ok"

\* C4: when write() / write_str() returns Ok, every byte of its buffer has
\* reached the child's input, in order and as the last bytes delivered, and
\* the writer holds nothing unflushed.
C4_WriteAllOrError ==
    (last.op = "write" /\ last.res = "Ok") =>
        /\ wbuf = <<>>
        /\ Len(delivered) >= Len(last.data)
        /\ SubSeq(delivered, Len(delivered) - Len(last.data) + 1,
                  Len(delivered)) = last.data

\* A write of two bytes has returned Ok after an earlier write had failed
\* part-way.
C4_Witness ==
    /\ last.op = "write" /\ last.res = "Ok"
    /\ Len(last.data) = 2
    /\ Len(delivered) > Len(last.data)

\* The variant the specification gives each phase's failure.
PhaseVariant(op, phase) ==
    CASE op = "new" /\ phase = "spawn_command" -> "SpawnError"
      [] op = "new" -> "CreateError"
      [] op \in ReadOps -> "ReadError"
      [] op = "write" /\ phase = "write" -> "WriteError"
      [] op = "write" /\ phase = "flush" -> "FlushError"
      [] op = "resize" -> "ResizeError"
      [] op = "wait" -> "WaitError"
      [] op = "kill" -> "KillError"
      [] OTHER -> "none"

\* C5: every failing operation returns the error variant of its own phase
\* (create, spawn, read, write, flush, resize, wait, kill).
C5_ErrorNamesPhase ==
    last.res = "Err" => last.err = PhaseVariant(last.op, last.phase)

C7_NeverBackToRunning ==
    (last.op = "is_running" /\ last.after) => ~last.flag

\* An is_running() called after a wait() or a false is_running() had
\* returned has returned false.
C7_Witness ==
    last.op = "is_running" /\ last.after /\ ~last.flag

\* C8: is_running() returns true exactly when the child has not terminated:
\* true while it executes, false once it has exited or been killed.
C8_IsRunningIffAlive ==
    last.op = "is_running" => (last.flag = last.alive)

\* An is_running() has returned false for a child that a kill() ended.
C8_Witness ==
    /\ last.op = "is_running" /\ ~last.flag
    /\ sigSent /\ proc = "exited" /\ command = "cat"

\* C9: a wait() that returns a status returns the child's own exit code (0
\* for `true`, 1 for `false`), and once an is_running() probe has seen the
\* exit, wait() still returns that code and cannot fail.
C9_WaitReportsExitStatus ==
    /\ (last.op = "wait" /\ last.res = "Ok") =>
          /\ proc = "exited"
          /\ last.code = exitStatus
          /\ (command = "true" /\ ~sigSent) => last.code = 0
          /\ command = "false" => last.code = 1
    /\ (last.op = "wait" /\ probed) =>
          (last.res = "Ok" /\ last.code = exitStatus)

\* A wait() has returned 1 for `false` after a probe had seen the exit.
C9_Witness ==
    /\ last.op = "wait" /\ last.res = "Ok" /\ last.code = 1
    /\ probed /\ command = "false"

\* C10: once the child has ended and its output is drained, every read()
\* and read_async() returns Ok with no bytes (a failure to dispatch the
\* blocking task aside).
C10_ReadSettlesToEof ==
    (/\ last.op \in ReadOps
     /\ ~last.alive
     /\ last.phase \notin {"data", "join"}
     /\ output = <<>>) =>
        (last.res = "Ok" /\ last.data = <<>>)

\* C11: once the child has exited or been killed, write() and write_str()
\* return an error, not Ok.
C11_WriteFailsAfterExit ==
    (last.op = "write" /\ ~last.alive) => last.res = "Err"

\* The calls of caller d that wait for no child and no data.
CanProbe(d) == ENABLED (\E tw \in TryWaitOutcomes : is_running(d, tw))
CanKill(d) == ENABLED kill(d, TRUE)
CanResize(d) == ENABLED resize(d, DefaultSize, TRUE)
CanStartWrite(d) ==
    (Len(wbuf) + Len(delivered) < MaxSink) => ENABLED write_lock(d)
CanStartRead(d) == ENABLED read_lock(d)

\* C12: while one caller holds the guard of one resource (inside a read, a
\* write or a wait), every call of another caller on a different resource can
\* go ahead at once, and a call on the same resource cannot.
C12_DifferentResourcesIndependent ==
    \A c \in Callers : \A d \in Callers \ {c} :
        (Live /\ pc[d] = "idle") =>
            /\ pc[c] \in {"read", "read_async"} =>
                  /\ CanStartWrite(d) /\ CanResize(d)
                  /\ CanProbe(d) /\ CanKill(d)
                  /\ ~CanStartRead(d)
            /\ pc[c] = "write" =>
                  /\ CanStartRead(d) /\ CanResize(d)
                  /\ CanProbe(d) /\ CanKill(d)
                  /\ ~ENABLED write_lock(d)
            /\ pc[c] = "wait" =>
                  /\ CanStartRead(d) /\ CanStartWrite(d) /\ CanResize(d)
                  /\ ~CanProbe(d) /\ ~CanKill(d)

\* One caller is blocked in a read on a running child that has written
\* nothing and the other is blocked in wait(), both guards held at once,
\* after a write has gone through.
C12_Witness ==
    \E c \in Callers : \E d \in Callers \ {c} :
        /\ pc[c] = "read" /\ pc[d] = "wait"
        /\ proc = "running" /\ output = <<>>
        /\ last.op = "write" /\ last.res = "Ok" /\ last.alive

\* C13: is_running() never waits: whenever a caller is free to call it, it
\* can take the child guard and return, also while another caller is
\* blocked inside wait().
C13_IsRunningNeverWaits ==
    \A d \in Callers : (Live /\ pc[d] = "idle") => CanProbe(d)

\* C14: while a read_async() is pending (handed to the blocking pool, or
\* blocked there in the read), the scheduler's thread is free: every other
\* task can be run and its write, resize, is_running and kill can go ahead.
C14_ReadAsyncLeavesSchedulerFree ==
    \A c \in Callers : \A d \in Callers \ {c} :
        (Live /\ pc[c] \in {"spawned", "read_async"} /\ pc[d] = "idle") =>
            /\ Scheduled(d)
            /\ CanStartWrite(d) /\ CanResize(d)
            /\ CanProbe(d) /\ CanKill(d)

\* A task has started a write while the read_async() of another, begun
\* before it, is blocked in its read of a silent running child.
C14_Witness ==
    \E c \in Callers : \E d \in Callers \ {c} :
        /\ pc[c] = "read_async" /\ pc[d] = "write"
        /\ proc = "running" /\ output = <<>>

\* The most recent call to return is a kill() the OS accepted, made on a
\* running child.
KilledOk == last.op = "kill" /\ last.res = "Ok" /\ last.alive

\* C15: once kill() has returned Ok on a running session the child ends
\* and stays ended, an is_running() that returns after the child has ended
\* returns false, and a wait() made after the signal returns.
C15_KillEndsSession ==
    /\ [](KilledOk => <>[](proc = "exited"))
    /\ []((last.op = "is_running" /\ ~last.alive) => ~last.flag)
    /\ \A c \in Callers : (sigSent /\ pc[c] = "wait") ~> (pc[c] = "idle")

\* A wait() has returned the status of a `cat` that only a kill() can end.
C15_Witness ==
    /\ command = "cat" /\ sigSent /\ proc = "exited"
    /\ last.op = "wait" /\ last.res = "Ok" /\ last.code = 1

\* C16: a resize the PTY rejects returns an error and changes nothing: the
\* cached size, the window size of the PTY, every other field of the
\* session, the guards and the child are what they were before the call.
C16_FailedResizeChangesNothing ==
    [][\A c \in Callers : \A new_size \in Sizes :
          resize(c, new_size, FALSE) =>
              /\ last'.op = "resize" /\ last'.res = "Err"
              /\ UNCHANGED <<session, applied, locks, process, stream, sink>>]_vars

\* A resize to a size other than the cached one has been rejected.
C16_Witness ==
    /\ Live
    /\ last.op = "resize" /\ last.res = "Err"
    /\ last.sz # size /\ size = applied

\* The name of the operation a failing phase belongs to.
OperationName(op, phase) ==
    CASE op = "new" /\ phase = "spawn_command" -> "spawn"
      [] op = "new" -> "create"
      [] op \in ReadOps -> "read"
      [] OTHER -> phase

\* C17: every error made from a failure of the OS (create, spawn, read,
\* write, flush, resize, wait, kill) has that failure as its source and the
\* name of its operation in its message.
C17_ErrorKeepsCauseAndNamesOperation ==
    (last.res = "Err" /\ last.phase # "join") =>
        /\ HasSource(last.err)
        /\ Contains(Display(last.err, last.cause),
                    OperationName(last.op, last.phase))

\* C18: the error of a failed spawn of command c has c in its message, and
\* the error of a failed resize({rows: r, cols: k}) has r and k in it.
C18_ErrorCarriesIdentifiers ==
    /\ (last.op = "new" /\ last.res = "Err" /\ last.phase = "spawn_command") =>
          Contains(Display(last.err, last.cause), last.cmd)
    /\ (last.op = "resize" /\ last.res = "Err") =>
          /\ Contains(Display(last.err, last.cause), ToString(last.sz.rows))
          /\ Contains(Display(last.err, last.cause), ToString(last.sz.cols))

\* The last n elements of a sequence.
LastN(q, n) == SubSeq(q, Len(q) - n + 1, Len(q))

\* C19: for every capacity, 0 included, and every sequence of push and
\* clear, push completes without failure, as_slice() is at most capacity
\* long and is the last min(capacity, n) of the n bytes pushed since the
\* most recent clear, in order.
C19_RingKeepsBoundedHistory ==
    ring.made =>
        /\ ~ring.panicked
        /\ Len(as_slice) <= ring.capacity
        /\ as_slice = LastN(ring.pushed, Min(ring.capacity, Len(ring.pushed)))

\* C20: can_inject() is true before any mark_injected() and afterwards
\* exactly when at least interval_ms milliseconds have passed since the
\* most recent one; two injections of a caller that injects only when it is
\* true and then marks are at least interval_ms apart.
C20_MinimumInterval ==
    /\ inj.at >= 0 =>
          (inj.res <=> (\/ inj.since = -1
                        \/ inj.at - inj.since >= inj.interval_ms * TicksPerMs))
    /\ (inj.prev >= 0 /\ inj.latest >= 0) =>
          inj.latest - inj.prev >= inj.interval_ms * TicksPerMs

\* With an interval of at least a millisecond, a second injection has been
\* made exactly interval_ms after the first and marked.
C20_Witness ==
    /\ inj.interval_ms >= 1
    /\ inj.prev >= 0
    /\ inj.latest - inj.prev = inj.interval_ms * TicksPerMs
    /\ inj.pc = "idle" /\ inj.last_injection = inj.latest

\* C21: the bytes the input sink receives from several callers' write() /
\* write_str() calls are never interleaved: every byte is the first of its
\* call's buffer or follows the byte before it of the same call, and the
\* buffer of a call that returned Ok has been received to its last byte.
C21_WritesNotInterleaved ==
    /\ \A i \in 1..Len(wr.wire) :
          \/ wr.wire[i].idx = 1
          \/ /\ i > 1
             /\ wr.wire[i - 1].id = wr.wire[i].id
             /\ wr.wire[i - 1].idx + 1 = wr.wire[i].idx
    /\ delivered \o wbuf = [i \in 1..Len(wr.wire) |-> wr.wire[i].byte]
    /\ (last.op = "write" /\ last.res = "Ok") =>
          \E j \in 1..Len(wr.wire) :
              /\ wr.wire[j].idx = Len(last.data)
              /\ wr.wire[j].byte = last.data[Len(last.data)]

\* The sink holds the two bytes of one caller's write followed by the first
\* byte of a write of the other, still in progress.
C21_Witness ==
    /\ Len(wr.wire) = 3
    /\ wr.wire[1].who # wr.wire[3].who
    /\ wr.wire[2].idx = 2 /\ wr.wire[3].idx = 1
    /\ pc[wr.wire[3].who] = "write"

\* The child's output stream so far: it writes the bytes 1, 2, 3, ..
OutputStream == [i \in 1..produced |-> i]

\* C22: across read() and read_async() calls of concurrent callers every
\* successful call returns at most 8192 bytes, and the chunks returned, in
\* the order the reader guard was taken, make up a prefix of the child's
\* output with no byte lost, duplicated or reordered: what was returned
\* followed by what is still to be read is the output stream.
C22_OutputExactlyOnceInOrder ==
    /\ (last.op \in ReadOps /\ last.res = "Ok") => Len(last.data) <= ReadWindow
    /\ rd.got = SubSeq(OutputStream, 1, Len(rd.got))
    /\ Live => rd.got \o output = OutputStream

\* C23: when a caller is blocked in wait() on a child that does not end on
\* its own and another caller has called kill(), the kill() gets the child
\* handle, the child is terminated and both calls return.
C23_KillUnblocksWait ==
    \A c \in Callers : \A d \in Callers \ {c} :
        (/\ pc[c] = "wait" /\ pc[d] = "kill"
         /\ proc = "running" /\ ExitCodeOf(command) = -1)
            ~> (proc = "exited" /\ pc[c] = "idle" /\ pc[d] = "idle")
====
